---- MODULE Spec2Model ----
(***************************************************************************)
(* Client-side session, authorized request client and route guards of the  *)
(* clinical-nutrition front-end: stores/authStore.js, api/client.js,       *)
(* api/auth.js and App.jsx.                                                *)
(***************************************************************************)
EXTENDS Integers, Sequences, FiniteSets, Bags, TLC

(***************************************************************************)
(* Bounds of the model.                                                    *)
(***************************************************************************)
MaxTokens == 2
MaxInflight == 1
MaxFlows == 2
MaxHistory == 2

(***************************************************************************)
(* JavaScript values: null, undefined, strings, numbers and flat objects   *)
(* whose properties are kept in insertion order.  A string is either       *)
(* opaque (field v) or a text cut into lexemes (field lex), which is how   *)
(* the JSON texts kept under dd_user are represented.                      *)
(***************************************************************************)
Null == [t |-> "null"]
Undefined == [t |-> "undefined"]
Str(s) == [t |-> "string", v |-> s]
Num(n) == [t |-> "number", v |-> n]
Text(l) == [t |-> "string", lex |-> l]
Obj(props) == [t |-> "object", props |-> props]
Prop(k, v) == [k |-> k, v |-> v]

Truthy(x) ==
    /\ x.t \notin {"null", "undefined"}
    /\ x /= Str("")
    /\ x /= Text(<< >>)

\* a || b
OrElse(a, b) == IF Truthy(a) THEN a ELSE b

\* o?.k
RECURSIVE Lookup(_, _)
Lookup(props, k) ==
    IF props = << >> THEN Undefined
    ELSE IF props[Len(props)].k = k THEN props[Len(props)].v
    ELSE Lookup(SubSeq(props, 1, Len(props) - 1), k)

OptGet(o, k) == IF o.t = "object" THEN Lookup(o.props, k) ELSE Undefined

\* String(x), the conversion localStorage.setItem applies to its value
ToStr(x) ==
    IF x.t = "string" THEN x
    ELSE IF x.t = "null" THEN Str("null")
    ELSE IF x.t = "undefined" THEN Str("undefined")
    ELSE Str("[object Object]")

(***************************************************************************)
(* JSON.stringify and JSON.parse over lexemes.                             *)
(***************************************************************************)
Lx(c) == [lx |-> c]
LStr(s) == [lx |-> "str", s |-> s]
LNum(n) == [lx |-> "num", n |-> n]
LWord(s) == [lx |-> "word", s |-> s]

ScalarLex(v) ==
    IF v.t = "string" THEN LStr(v.v)
    ELSE IF v.t = "number" THEN LNum(v.v)
    ELSE Lx("null")

RECURSIVE DefinedProps(_)
DefinedProps(props) ==
    IF props = << >> THEN << >>
    ELSE IF Head(props).v.t = "undefined" THEN DefinedProps(Tail(props))
    ELSE << Head(props) >> \o DefinedProps(Tail(props))

RECURSIVE MemberLex(_)
MemberLex(props) ==
    IF props = << >> THEN << >>
    ELSE << LStr(Head(props).k), Lx(":"), ScalarLex(Head(props).v) >>
         \o (IF Len(props) > 1 THEN << Lx(",") >> ELSE << >>)
         \o MemberLex(Tail(props))

JSONStringify(v) ==
    IF v.t = "undefined" THEN Undefined
    ELSE IF v.t = "object"
        THEN Text(<< Lx("{") >> \o MemberLex(DefinedProps(v.props)) \o << Lx("}") >>)
    ELSE Text(<< ScalarLex(v) >>)

\* the characters of a string, as lexemes
Lexemes(s) ==
    IF "lex" \in DOMAIN s THEN s.lex
    ELSE IF s.v = "" THEN << >>
    ELSE IF s.v = "null" THEN << Lx("null") >>
    ELSE << LWord(s.v) >>

SyntaxError == [ok |-> FALSE]
Parsed(v) == [ok |-> TRUE, value |-> v]

IsScalarLex(l) == l.lx \in {"str", "num", "null"}

ScalarOf(l) ==
    IF l.lx = "str" THEN Str(l.s)
    ELSE IF l.lx = "num" THEN Num(l.n)
    ELSE Null

\* obj[k] = v
SetProp(props, k, v) ==
    IF \E i \in 1..Len(props) : props[i].k = k
        THEN [i \in 1..Len(props) |->
                 IF props[i].k = k THEN Prop(k, v) ELSE props[i]]
    ELSE Append(props, Prop(k, v))

\* members of an object, the lexeme at i being the first of a member
RECURSIVE ParseMembers(_, _, _)
ParseMembers(l, i, acc) ==
    IF i + 3 > Len(l) THEN SyntaxError
    ELSE IF l[i].lx /= "str" \/ l[i + 1].lx /= ":" \/ ~IsScalarLex(l[i + 2])
        THEN SyntaxError
    ELSE LET props == SetProp(acc, l[i].s, ScalarOf(l[i + 2])) IN
         IF l[i + 3].lx = "}"
             THEN (IF i + 3 = Len(l) THEN Parsed(Obj(props)) ELSE SyntaxError)
         ELSE IF l[i + 3].lx = ","
             THEN ParseMembers(l, i + 4, props)
         ELSE SyntaxError

JSONParse(s) ==
    LET l == Lexemes(s) IN
    IF l = << >> THEN SyntaxError
    ELSE IF Len(l) = 1
        THEN (IF IsScalarLex(l[1]) THEN Parsed(ScalarOf(l[1])) ELSE SyntaxError)
    ELSE IF l[1].lx /= "{" THEN SyntaxError
    ELSE IF Len(l) = 2
        THEN (IF l[2].lx = "}" THEN Parsed(Obj(<< >>)) ELSE SyntaxError)
    ELSE ParseMembers(l, 2, << >>)

(***************************************************************************)
(* window.localStorage: a map from the keys that are set to strings.       *)
(***************************************************************************)
getItem(ls, k) == IF k \in DOMAIN ls THEN ls[k] ELSE Null

setItem(ls, k, v) ==
    [x \in DOMAIN ls \cup {k} |-> IF x = k THEN ToStr(v) ELSE ls[x]]

removeItem(ls, k) == [x \in DOMAIN ls \ {k} |-> ls[x]]

EmptyStorage == [x \in {} |-> Null]

(***************************************************************************)
(* Inputs: bearer tokens, the user records the backend returns, the paths  *)
(* a user navigates to, the outcomes of a request.                         *)
(***************************************************************************)
Tokens == {Str("t" \o ToString(i)) : i \in 1..MaxTokens}

Roles == {"patient", "investigator"}

UserRecord(i, r) ==
    Obj(<< Prop("id", Num(i)),
           Prop("email", Str("u" \o ToString(i) \o "@example.org")),
           Prop("full_name", Str("User " \o ToString(i))),
           Prop("role", Str(r)) >>)

\* one patient and one investigator
Users == {UserRecord(1, "patient"), UserRecord(2, "investigator")}

\* the token argument of me: a token (Login.jsx), or none at all (Register.jsx)
MeArguments == {Str("t1"), Undefined}

NavPaths == {"/", "/login", "/dashboard", "/investigator", "/missing"}

ClientUrls == {"/api/v1/patients/profile", "/api/v1/auth/change-password"}

LoginUrl == "/api/v1/auth/login"
MeUrl == "/api/v1/auth/me"
RegisterUrl == "/api/v1/auth/register"

HttpResponse(s) == [kind |-> "response", status |-> s]
NetworkError == [kind |-> "network"]
TimeoutError == [kind |-> "timeout"]

Outcomes == {HttpResponse(s) : s \in {200, 401, 403, 500}} \cup {NetworkError, TimeoutError}

\* axios itself is given no timeout
AxiosOutcomes == Outcomes \ {TimeoutError}

\* axios settles a response of status 2xx as a success, anything else as an error
IsError(o) == o.kind /= "response" \/ o.status < 200 \/ o.status >= 300

\* err.response?.status
ResponseStatus(o) == IF o.kind = "response" THEN Num(o.status) ELSE Undefined

(***************************************************************************)
(* A handler runs to completion as a sequence of effects on the storage,   *)
(* the store, the router and the window.  Run applies them in order.       *)
(***************************************************************************)
SetItemFx(k, v) == [fx |-> "setItem", k |-> k, v |-> v]
RemoveItemFx(k) == [fx |-> "removeItem", k |-> k]
\* zustand's set(partial): the fields given are merged into the state
SetFx(partial) == [fx |-> "set", partial |-> partial]
\* window.location.href = to
HrefFx(to) == [fx |-> "href", to |-> to]
\* navigate(to) of react-router
NavigateFx(to) == [fx |-> "navigate", to |-> to]
ToastFx(kind) == [fx |-> "toast", kind |-> kind]

Apply(w, e) ==
    CASE e.fx = "setItem"    -> [w EXCEPT !.ls = setItem(w.ls, e.k, e.v)]
      [] e.fx = "removeItem" -> [w EXCEPT !.ls = removeItem(w.ls, e.k)]
      [] e.fx = "set"        ->
            [w EXCEPT !.st = [f \in DOMAIN w.st |->
                                IF f \in DOMAIN e.partial THEN e.partial[f] ELSE w.st[f]]]
      [] e.fx = "href"       -> [w EXCEPT !.href = e.to]
      [] e.fx = "navigate"   -> [w EXCEPT !.location = e.to]
      [] OTHER               -> w

RECURSIVE Run(_, _)
Run(w, steps) ==
    IF steps = << >> THEN w ELSE Run(Apply(w, Head(steps)), Tail(steps))

(***************************************************************************)
(* stores/authStore.js                                                     *)
(***************************************************************************)
\* the module-level read of the persisted session; threw: JSON.parse raised
stored(ls) ==
    LET parsed == JSONParse(OrElse(getItem(ls, "dd_user"), Str("null"))) IN
    IF parsed.ok
        THEN [threw |-> FALSE,
              token |-> OrElse(getItem(ls, "dd_token"), Null),
              user  |-> parsed.value]
    ELSE [threw |-> TRUE]

\* variant: the user is stored as String(user), not as JSON
setAuth_PlainUser(ls, st, token, user) ==
    [ls |-> setItem(setItem(ls, "dd_token", token), "dd_user", user),
     st |-> [token |-> token, user |-> user]]

setAuthSteps(token, user) ==
    << SetItemFx("dd_token", token),
       SetItemFx("dd_user", JSONStringify(user)),
       SetFx([token |-> token, user |-> user]) >>

setAuth(ls, st, token, user) == Run([ls |-> ls, st |-> st], setAuthSteps(token, user))

\* variant: the keys are overwritten with null instead of removed
logout_WritesNull(ls, st) ==
    [ls |-> setItem(setItem(ls, "dd_token", Null), "dd_user", Null),
     st |-> [token |-> Null, user |-> Null]]

\* variant: the memory is cleared first
logoutSteps_MemoryFirst ==
    << SetFx([token |-> Null, user |-> Null]),
       RemoveItemFx("dd_token"),
       RemoveItemFx("dd_user") >>

logoutSteps ==
    << RemoveItemFx("dd_token"),
       RemoveItemFx("dd_user"),
       SetFx([token |-> Null, user |-> Null]) >>

logout(ls, st) == Run([ls |-> ls, st |-> st], logoutSteps)

\* variant: the state is replaced, not merged, and the token key goes with it
updateUserSteps_DropsToken(user) ==
    << RemoveItemFx("dd_token"),
       SetItemFx("dd_user", JSONStringify(user)),
       SetFx([token |-> Null, user |-> user]) >>

updateUserSteps(user) ==
    << SetItemFx("dd_user", JSONStringify(user)),
       SetFx([user |-> user]) >>

updateUser(ls, st, user) == Run([ls |-> ls, st |-> st], updateUserSteps(user))

(***************************************************************************)
(* api/client.js                                                           *)
(***************************************************************************)
Bearer(token) == Str("Bearer " \o ToStr(token).v)

\* variant: the header is set without looking at the token
requestInterceptor_Unchecked(ls, config) ==
    [config EXCEPT !.Authorization = Bearer(getItem(ls, "dd_token"))]

requestInterceptor(ls, config) ==
    LET token == getItem(ls, "dd_token") IN
    IF Truthy(token) THEN [config EXCEPT !.Authorization = Bearer(token)]
    ELSE config

\* how a handler of the response interceptor settles the promise of the caller
Settle(how, with) == [settled |-> how, with |-> with]

\* (res) => res
responseFulfilled(ls, res) ==
    [ls |-> ls, href |-> "none"] @@ Settle("resolved", res)

\* variant: the redirect is started before the keys are removed
responseRejectedSteps_RedirectFirst(err) ==
    IF ResponseStatus(err) = Num(401)
        THEN << HrefFx("/login"), RemoveItemFx("dd_token"), RemoveItemFx("dd_user") >>
    ELSE << >>

\* the effects of the error handler, up to its return
responseRejectedSteps(err) ==
    IF ResponseStatus(err) = Num(401)
        THEN << RemoveItemFx("dd_token"), RemoveItemFx("dd_user"), HrefFx("/login") >>
    ELSE << >>

\* variant: the user key is left behind
responseRejected_KeepsUser(ls, err) ==
    (IF ResponseStatus(err) = Num(401)
        THEN [ls |-> removeItem(ls, "dd_token"), href |-> "/login"]
     ELSE [ls |-> ls, href |-> "none"]) @@ Settle("rejected", err)

\* variant: 403 is taken for a lost session too
responseRejected_Forbidden(ls, err) ==
    (IF ResponseStatus(err) \in {Num(401), Num(403)}
        THEN [ls |-> removeItem(removeItem(ls, "dd_token"), "dd_user"),
              href |-> "/login"]
     ELSE [ls |-> ls, href |-> "none"]) @@ Settle("rejected", err)

\* variant: the failure is swallowed, the caller sees a success
responseRejected_Swallows(ls, err) ==
    Run([ls |-> ls, href |-> "none"], responseRejectedSteps(err)) @@ Settle("resolved", err)

\* the error handler of the response interceptor; href: the value assigned to
\* window.location.href, "none" when nothing is assigned; it ends in
\* Promise.reject(err)
responseRejected(ls, err) ==
    Run([ls |-> ls, href |-> "none"], responseRejectedSteps(err)) @@ Settle("rejected", err)

(***************************************************************************)
(* api/auth.js: login, me and register call axios itself, not the client   *)
(***************************************************************************)
\* new URLSearchParams() with its append calls: text fields in order
URLSearchParams(fields) == [kind |-> "urlencoded", fields |-> fields]
\* formData.append(k, v): the value is converted to text
FormField(k, v) == [k |-> k, v |-> ToStr(v)]

\* a plain object handed to axios.post is sent as JSON
JsonBody(o) == [kind |-> "json", value |-> o]

Request(method, url, data, contentType, auth) ==
    [method |-> method, url |-> url, data |-> data,
     ContentType |-> contentType, Authorization |-> auth]

\* variant: the credentials are posted as JSON under email and password
login_AsJson(email, password) ==
    Request("POST", "/api/v1/auth/login",
            JsonBody(Obj(<< Prop("email", email), Prop("password", password) >>)),
            Str("application/json"), Undefined)

login(email, password) ==
    Request("POST", "/api/v1/auth/login",
            URLSearchParams(<< FormField("username", email), FormField("password", password) >>),
            Str("application/x-www-form-urlencoded"), Undefined)

me(token) ==
    Request("GET", "/api/v1/auth/me", Undefined, Undefined, Bearer(token))

\* role = "patient" when the fourth argument is undefined
register(email, password, fullName, role) ==
    Request("POST", "/api/v1/auth/register",
            JsonBody(Obj(<< Prop("email", email),
                            Prop("password", password),
                            Prop("full_name", fullName),
                            Prop("role", IF role = Undefined THEN Str("patient") ELSE role) >>)),
            Str("application/json"), Undefined)

\* variant: the adapter shares the client
AuthTransport_Client == "client"

AuthTransport == "axios"

(***************************************************************************)
(* App.jsx: the guards and the route table.                                *)
(***************************************************************************)
Children == [render |-> TRUE]

\* variant: <Navigate> without replace
NavigateTo_Push(path) == [render |-> FALSE, to |-> path, replace |-> FALSE]

NavigateTo(path) == [render |-> FALSE, to |-> path, replace |-> TRUE]

RequireAuth(st) ==
    IF Truthy(st.token) THEN Children ELSE NavigateTo("/login")

RequireInvestigator(st) ==
    IF ~Truthy(st.token) THEN NavigateTo("/login")
    ELSE IF OptGet(st.user, "role") /= Str("investigator") THEN NavigateTo("/dashboard")
    ELSE Children

\* variant: only the role patient is let in
RequirePatient_PatientOnly(st) ==
    IF ~Truthy(st.token) THEN NavigateTo("/login")
    ELSE IF OptGet(st.user, "role") /= Str("patient") THEN NavigateTo("/investigator")
    ELSE Children

\* variant: the role is not looked at
RequirePatient_AnyRole(st) ==
    IF ~Truthy(st.token) THEN NavigateTo("/login") ELSE Children

RequirePatient(st) ==
    IF ~Truthy(st.token) THEN NavigateTo("/login")
    ELSE IF OptGet(st.user, "role") = Str("investigator") THEN NavigateTo("/investigator")
    ELSE Children

\* variant: a session is sent to the login page
PublicOnly_ToLogin(st) ==
    IF ~Truthy(st.token) THEN Children ELSE NavigateTo("/login")

PublicOnly(st) ==
    IF ~Truthy(st.token) THEN Children
    ELSE NavigateTo(IF OptGet(st.user, "role") = Str("investigator")
                        THEN "/investigator" ELSE "/dashboard")

PatientPaths ==
    {"/dashboard", "/profile", "/dietary-recall", "/diet-plan", "/ffq", "/progress",
     "/recall-calendar", "/plan-comparison", "/goals"}

InvestigatorPaths ==
    {"/investigator", "/investigator/patients", "/investigator/analytics"}

\* variant: an unmatched path is sent to the login page
RouteElement_UnmatchedToLogin(path, st) ==
    IF path = "/" THEN Children
    ELSE IF path \in {"/login", "/register"} THEN PublicOnly(st)
    ELSE IF path \in PatientPaths THEN RequirePatient(st)
    ELSE IF path \in InvestigatorPaths THEN RequireInvestigator(st)
    ELSE NavigateTo("/login")

\* the element <Routes> renders for a path
RouteElement(path, st) ==
    IF path = "/" THEN Children
    ELSE IF path \in {"/login", "/register"} THEN PublicOnly(st)
    ELSE IF path \in PatientPaths THEN RequirePatient(st)
    ELSE IF path \in InvestigatorPaths THEN RequireInvestigator(st)
    ELSE NavigateTo("/")

(***************************************************************************)
(* State.                                                                  *)
(*   localStorage  the durable storage of the origin                       *)
(*   store         the state of useAuthStore: token and user               *)
(*   app           "running", or "crashed" when loading the modules threw  *)
(*   location      the path the router is at                               *)
(*   pendingNav    the document navigation started by an assignment to     *)
(*                 window.location.href, "none" when there is none         *)
(*   inflight      the requests dispatched and not yet settled             *)
(*   last          the last event; a reload and a logout record the event  *)
(*                 they follow                                             *)
(*   pending       the handler that is running, with the effects it has    *)
(*                 still to perform, where handlers are followed effect by *)
(*                 effect                                                  *)
(*   flows         the submissions of the login and register forms that    *)
(*                 await a reply                                           *)
(*   history       the entries of the session history below the current    *)
(*                 one, where the history is followed                      *)
(***************************************************************************)
VARIABLES localStorage, store, app, location, pendingNav, inflight, last,
          pending, flows, history

vars == << localStorage, store, app, location, pendingNav, inflight, last,
           pending, flows, history >>

NoHandler == [op |-> "none", steps |-> << >>]

\* the handler op with the effects it has still to perform; note: what the
\* handler was called with
Handler(op, steps, note) ==
    IF steps = << >> THEN NoHandler
    ELSE [op |-> op, steps |-> steps, note |-> note]

\* the page that submitted a flow is unmounted: the flow goes on, the form
\* that replaces it starts with loading = false
Detach(fs) ==
    LET det(f) == [f EXCEPT !.mounted = FALSE] IN
    [g \in {det(f) : f \in DOMAIN fs} |->
        CopiesIn(g, fs) + CopiesIn([g EXCEPT !.mounted = TRUE], fs)]

\* the application is loaded and no handler is on the stack
Running == app = "running" /\ pending = NoHandler

Event(op, fields) == [op |-> op] @@ fields

\* the last event, without the event it followed
Previous == [k \in DOMAIN last \ {"after"} |-> last[k]]

NoFields == [x \in {} |-> Null]

\* the page loads: the modules are evaluated against the storage found
Boot(ls) ==
    LET s == stored(ls) IN
    IF s.threw THEN [app |-> "crashed", store |-> [token |-> Undefined, user |-> Undefined]]
    ELSE [app |-> "running", store |-> [token |-> s.token, user |-> s.user]]

\* the storage a previous visit left behind: nothing, or a session
SessionStorages ==
    {EmptyStorage} \cup
    {setAuth(EmptyStorage, [token |-> Null, user |-> Null], t, u).ls : t \in Tokens, u \in Users}

InitWith(ls) ==
    /\ localStorage = ls
    /\ store = Boot(ls).store
    /\ app = Boot(ls).app
    /\ location = "/"
    /\ pendingNav = "none"
    /\ inflight = {}
    /\ last = [op |-> "load"]
    /\ pending = NoHandler
    /\ flows = EmptyBag
    /\ history = << >>

Init == \E ls \in SessionStorages : InitWith(ls)

(***************************************************************************)
(* The operations of the store, called on the running application.         *)
(***************************************************************************)
SetAuth(t, u) ==
    /\ Running
    /\ LET r == setAuth(localStorage, store, t, u) IN
        /\ localStorage' = r.ls
        /\ store' = r.st
    /\ last' = Event("setAuth", [token |-> t, user |-> u])
    /\ UNCHANGED << app, location, pendingNav, inflight, pending, flows, history >>

Logout ==
    /\ Running
    /\ LET r == logout(localStorage, store) IN
        /\ localStorage' = r.ls
        /\ store' = r.st
    /\ last' = Event("logout", [after |-> Previous])
    /\ UNCHANGED << app, location, pendingNav, inflight, pending, flows, history >>

UpdateUser(u) ==
    /\ Running
    /\ LET r == updateUser(localStorage, store, u) IN
        /\ localStorage' = r.ls
        /\ store' = r.st
    /\ last' = Event("updateUser",
                     [user |-> u,
                      before |-> [token |-> store.token,
                                  key |-> getItem(localStorage, "dd_token")]])
    /\ UNCHANGED << app, location, pendingNav, inflight, pending, flows, history >>

(***************************************************************************)
(* Requests.                                                               *)
(***************************************************************************)
Config(url, auth) == [url |-> url, Authorization |-> auth]

\* a request leaves through the client (its request interceptor runs) or
\* through axios itself
Dispatch(via, config) ==
    /\ Running
    /\ Cardinality(inflight) < MaxInflight
    /\ LET sent == IF via = "client" THEN requestInterceptor(localStorage, config)
                   ELSE config IN
        /\ [via |-> via] @@ sent \notin inflight
        /\ inflight' = inflight \cup {[via |-> via] @@ sent}
    /\ last' = Event("dispatch", NoFields)
    /\ UNCHANGED << localStorage, store, app, location, pendingNav, pending, flows, history >>

\* patientApi, dietaryApi, dietPlanApi, researchApi, changePassword, ...
ClientRequest(url) == Dispatch("client", Config(url, Undefined))

\* what the model of the requests in flight keeps of a request
Wire(req) == Config(req.url, req.Authorization)

AuthLogin == Dispatch(AuthTransport, Wire(login(Str("a@b.com"), Str("secret-pw"))))

AuthMe(token) == Dispatch(AuthTransport, Wire(me(token)))

AuthRegister ==
    Dispatch(AuthTransport, Wire(register(Str("a@b.com"), Str("secret-pw"), Str("Ann"), Undefined)))

\* request r settles with outcome o
Response(via, r, o) ==
    /\ Running
    /\ r \in inflight
    /\ r.via = via
    /\ LET e == IF via /= "client"
                    THEN [ls |-> localStorage, href |-> "none"] @@
                         Settle(IF IsError(o) THEN "rejected" ELSE "resolved", o)
                ELSE IF IsError(o) THEN responseRejected(localStorage, o)
                ELSE responseFulfilled(localStorage, o) IN
        /\ localStorage' = e.ls
        /\ pendingNav' = IF e.href /= "none" THEN e.href ELSE pendingNav
        /\ last' = Event("response",
                         [via |-> via, url |-> r.url, outcome |-> o,
                          settled |-> e.settled, with |-> e.with])
    /\ inflight' = inflight \ {r}
    /\ UNCHANGED << store, app, location, pending, flows, history >>

ClientResponse(r, o) == Response("client", r, o)

AxiosResponse(r, o) == Response("axios", r, o)

(***************************************************************************)
(* Navigation.                                                             *)
(***************************************************************************)
\* a link is followed: the router moves to the path; the entry left behind
\* is not kept here, it is in Visit
GoTo(path) ==
    /\ Running
    /\ location /= path
    /\ location' = path
    /\ flows' = Detach(flows)
    /\ last' = Event("goto", NoFields)
    /\ UNCHANGED << localStorage, store, app, pendingNav, inflight, pending, history >>

\* <Routes> renders the element of the current path; a <Navigate> moves on
Render ==
    /\ Running
    /\ LET e == RouteElement(location, store) IN
        /\ location' = IF e.render THEN location ELSE e.to
        /\ flows' = IF e.render THEN flows ELSE Detach(flows)
        /\ history' = IF e.render \/ e.replace THEN history
                      ELSE Append(history, location)
        /\ last' = Event("render", [path |-> location, element |-> e])
    /\ UNCHANGED << localStorage, store, app, pendingNav, inflight, pending >>

\* the document loads: the pending navigation commits, or the user reloads
Reload ==
    /\ pending = NoHandler
    /\ LET b == Boot(localStorage) IN
        /\ app' = b.app
        /\ store' = b.store
    /\ location' = IF pendingNav /= "none" THEN pendingNav ELSE location
    /\ pendingNav' = "none"
    /\ inflight' = {}
    /\ flows' = EmptyBag
    /\ last' = Event("reload", [after |-> Previous])
    /\ UNCHANGED << localStorage, pending, history >>

(***************************************************************************)
(* The same handlers followed effect by effect: a call puts the effects of *)
(* the handler on the stack, Step performs the next one.  Nothing else     *)
(* runs until the handler has returned.                                    *)
(***************************************************************************)
Step ==
    /\ app = "running"
    /\ pending /= NoHandler
    /\ LET e == Head(pending.steps)
           w == Apply([ls |-> localStorage, st |-> store,
                       location |-> location, href |-> pendingNav], e) IN
        /\ localStorage' = w.ls
        /\ store' = w.st
        /\ location' = w.location
        /\ pendingNav' = w.href
        /\ flows' = IF w.location /= location THEN Detach(flows) ELSE flows
        /\ last' = Event("step", [of |-> pending.op, fx |-> e])
    /\ pending' = Handler(pending.op, Tail(pending.steps), pending.note)
    /\ UNCHANGED << app, inflight, history >>

Call(op, steps, note) ==
    /\ Running
    /\ pending' = Handler(op, steps, note)
    /\ last' = Event("call", [of |-> op])
    /\ UNCHANGED << localStorage, store, app, location, pendingNav, inflight, flows, history >>

CallSetAuth(t, u) == Call("setAuth", setAuthSteps(t, u), store)

CallLogout == Call("logout", logoutSteps, store)

CallUpdateUser(u) == Call("updateUser", updateUserSteps(u), store)

\* variant: the interceptor ends only the session the request was sent with
ClientSettles_OwnSession(r, o) ==
    /\ Running
    /\ r \in inflight
    /\ r.via = "client"
    /\ inflight' = inflight \ {r}
    /\ pending' = Handler("responseRejected",
                          IF ~IsError(o) THEN << >>
                          ELSE IF ResponseStatus(o) = Num(401)
                                  /\ requestInterceptor(localStorage, Config(r.url, Undefined)).Authorization
                                        /= r.Authorization
                              THEN << HrefFx("/login") >>
                          ELSE responseRejectedSteps(o),
                          [outcome |-> o, sent |-> r.Authorization])
    /\ last' = Event("settle", [outcome |-> o])
    /\ UNCHANGED << localStorage, store, app, location, pendingNav, flows, history >>

\* a request sent through the client settles: the response interceptor runs;
\* the handler is noted with the response and the Authorization of the request
ClientSettles(r, o) ==
    /\ Running
    /\ r \in inflight
    /\ r.via = "client"
    /\ inflight' = inflight \ {r}
    /\ pending' = Handler("responseRejected",
                          IF IsError(o) THEN responseRejectedSteps(o) ELSE << >>,
                          [outcome |-> o, sent |-> r.Authorization])
    /\ last' = Event("settle", [outcome |-> o])
    /\ UNCHANGED << localStorage, store, app, location, pendingNav, flows, history >>

NextSteps ==
    \/ \E t \in Tokens, u \in Users : CallSetAuth(t, u)
    \/ CallLogout
    \/ \E u \in Users : CallUpdateUser(u)
    \/ \E url \in ClientUrls : ClientRequest(url)
    \/ \E r \in inflight, o \in Outcomes : ClientSettles(r, o)
    \/ Step
    \/ \E p \in NavPaths : GoTo(p)
    \/ Render
    \/ Reload

SpecSteps == Init /\ [][NextSteps]_vars

(***************************************************************************)
(* pages/Login.jsx and pages/Register.jsx: handleSubmit, from the submit   *)
(* to each await and from each reply to the next await or to the end.  A   *)
(* flow is a submission that awaits a reply: the page it came from, the    *)
(* call it awaits, the form and the access token its closure holds, the    *)
(* request it sent, and whether its page is still mounted.                 *)
(***************************************************************************)
LoginForms ==
    {[email |-> Str(e), password |-> Str("secret-pw")] : e \in {"", "a@b.com"}}

RegisterForms ==
    {[full_name |-> Str("Ann"), email |-> Str("a@b.com"),
      password |-> Str(p), role |-> Str(r)] : p \in {"short", "secret-pw"}, r \in Roles}

\* the form state of Register.jsx as the object it is
FormObject(form) ==
    Obj(<< Prop("full_name", form.full_name), Prop("email", form.email),
           Prop("password", form.password), Prop("role", form.role) >>)

FormPaths == {"/login", "/register"}

Flow(page, pc, form, token, request) ==
    [page |-> page, pc |-> pc, form |-> form, token |-> token,
     request |-> request, mounted |-> TRUE]

\* the loading state of the mounted form: its submission is not over
Loading == \E f \in BagToSet(flows) : f.mounted

\* variant: every user is sent to the patient home
HomeOf_Dashboard(user) == "/dashboard"

\* me.data.role === 'investigator' ? '/investigator' : '/dashboard'
HomeOf(user) ==
    IF OptGet(user, "role") = Str("investigator") THEN "/investigator" ELSE "/dashboard"

\* variant: the navigation is issued before the session is stored
LoginSucceeds_NavigateFirst(token, data) ==
    << NavigateFx(HomeOf(data)) >> \o setAuthSteps(token, data) \o << ToastFx("success") >>

\* Login.jsx, from the reply of me to the end of the try block; the toast
\* reads me.data.full_name.split, which throws into the catch block when
\* there is no full_name
LoginSucceeds(token, data) ==
    setAuthSteps(token, data) \o
    (IF OptGet(data, "full_name").t = "string"
        THEN << ToastFx("success"), NavigateFx(HomeOf(data)) >>
     ELSE << ToastFx("error") >>)

\* Register.jsx, from the reply of me to the end of the try block
RegisterSucceeds(token, data) ==
    setAuthSteps(token, data) \o << ToastFx("success"), NavigateFx(HomeOf(data)) >>

Submit(page, valid, flow) ==
    /\ Running
    /\ location = "/" \o page
    /\ RouteElement(location, store) = Children
    /\ ~Loading
    /\ IF valid
          THEN /\ BagCardinality(flows) < MaxFlows
               /\ flows' = flows (+) SetToBag({flow})
          ELSE flows' = flows
    /\ last' = Event("submit", [page |-> page, valid |-> valid])
    /\ UNCHANGED << localStorage, store, app, location, pendingNav, inflight, pending, history >>

LoginSubmit(form) ==
    Submit("login", Truthy(form.email) /\ Truthy(form.password),
           Flow("login", "login", form, Undefined, login(form.email, form.password)))

RegisterSubmit(form) ==
    Submit("register",
           /\ Truthy(form.full_name) /\ Truthy(form.email) /\ Truthy(form.password)
           /\ Len(form.password.v) >= 8,
           Flow("register", "register", form, Undefined,
                register(FormObject(form), Undefined, Undefined, Undefined)))

\* variant: there is no catch, a failed call goes on like a success
Reply_IgnoresError(f, o, next, then) ==
    /\ Running
    /\ BagIn(f, flows)
    /\ flows' = (flows (-) SetToBag({f})) (+) next
    /\ pending' = then
    /\ last' = Event("reply", [page |-> f.page, pc |-> f.pc, ok |-> ~IsError(o)])
    /\ UNCHANGED << localStorage, store, app, location, pendingNav, inflight, history >>

\* the call flow f awaits settles: on an error the catch block ends the
\* submission, else the flow goes on as next, or ends in the handler then;
\* a reply that succeeds records the token the flow held and the
\* Authorization of the request that was answered
Reply(f, o, next, then) ==
    /\ Running
    /\ BagIn(f, flows)
    /\ flows' = (flows (-) SetToBag({f})) (+) (IF IsError(o) THEN EmptyBag ELSE next)
    /\ pending' = IF IsError(o) THEN NoHandler ELSE then
    /\ last' = Event("reply",
                     [page |-> f.page, pc |-> f.pc, ok |-> ~IsError(o)] @@
                     (IF IsError(o) THEN NoFields
                      ELSE [flow |-> [token |-> f.token,
                                      sent |-> f.request.Authorization]]))
    /\ UNCHANGED << localStorage, store, app, location, pendingNav, inflight, history >>

RegisterReply(f, o) ==
    /\ f.pc = "register"
    /\ Reply(f, o,
             SetToBag({[f EXCEPT !.pc = "login",
                                 !.request = login(f.form.email, f.form.password)]}),
             NoHandler)

\* token: res.data.access_token
LoginReply(f, o, token) ==
    /\ f.pc = "login"
    /\ Reply(f, o,
             SetToBag({[f EXCEPT !.pc = "me",
                                 !.token = token,
                                 !.request = IF f.page = "login" THEN me(token)
                                             ELSE me(Undefined)]}),
             NoHandler)

\* variant: the token is kept in one place shared by the submissions, and
\* setAuth is called with the token another flow left there
MeReply_SharedToken(f, o, data) ==
    LET others == {g \in BagToSet(flows) : g.pc = "me" /\ g.token /= f.token}
        token == IF others = {} THEN f.token ELSE (CHOOSE g \in others : TRUE).token IN
    /\ f.pc = "me"
    /\ Reply(f, o, EmptyBag,
             Handler(f.page,
                     IF f.page = "login" THEN LoginSucceeds(token, data)
                     ELSE RegisterSucceeds(token, data),
                     [token |-> token, user |-> data]))

\* data: me.data
MeReply(f, o, data) ==
    /\ f.pc = "me"
    /\ Reply(f, o, EmptyBag,
             Handler(f.page,
                     IF f.page = "login" THEN LoginSucceeds(f.token, data)
                     ELSE RegisterSucceeds(f.token, data),
                     [token |-> f.token, user |-> data]))

\* components/layout/AppLayout.jsx, the Sign Out button of the patient layout
SignOut ==
    /\ location \in PatientPaths
    /\ RouteElement(location, store) = Children
    /\ Call("signOut", logoutSteps \o << NavigateFx("/login") >>, store)

NextFlows ==
    \/ SignOut
    \/ \E form \in LoginForms : LoginSubmit(form)
    \/ \E form \in RegisterForms : RegisterSubmit(form)
    \/ \E f \in BagToSet(flows), o \in AxiosOutcomes : RegisterReply(f, o)
    \/ \E f \in BagToSet(flows), o \in AxiosOutcomes, t \in Tokens : LoginReply(f, o, t)
    \/ \E f \in BagToSet(flows), o \in AxiosOutcomes, u \in Users : MeReply(f, o, u)
    \/ Step
    \/ CallLogout
    \/ \E p \in FormPaths : GoTo(p)
    \/ Render
    \/ Reload

SpecFlows == Init /\ [][NextFlows]_vars

(***************************************************************************)
(* The flows together with the requests of the pages through the client.   *)
(***************************************************************************)
NextApp ==
    \/ NextFlows
    \/ \E url \in ClientUrls : ClientRequest(url)
    \/ \E r \in inflight, o \in Outcomes : ClientSettles(r, o)

SpecApp == Init /\ [][NextApp]_vars

Next ==
    \/ \E t \in Tokens, u \in Users : SetAuth(t, u)
    \/ Logout
    \/ \E u \in Users : UpdateUser(u)
    \/ \E url \in ClientUrls : ClientRequest(url)
    \/ AuthLogin
    \/ \E t \in MeArguments : AuthMe(t)
    \/ AuthRegister
    \/ \E r \in inflight, o \in Outcomes : ClientResponse(r, o)
    \/ \E r \in inflight, o \in AxiosOutcomes : AxiosResponse(r, o)
    \/ \E p \in NavPaths : GoTo(p)
    \/ Render
    \/ Reload

Spec == Init /\ [][Next]_vars

(***************************************************************************)
(* The router with its history: links push an entry, the back button pops  *)
(* one, a <Navigate replace> puts its target in the place of the current   *)
(* entry.  The sessions are those a me reply of any shape leaves behind: a *)
(* user with a role, with an unknown role, without a role, or no user.     *)
(***************************************************************************)
RouterUsers ==
    Users \cup
    {Null,
     Obj(<< Prop("id", Num(3)), Prop("full_name", Str("User 3")) >>),
     Obj(<< Prop("id", Num(4)), Prop("full_name", Str("User 4")),
            Prop("role", Str("admin")) >>)}

RouterStorages ==
    {EmptyStorage} \cup
    {setAuth(EmptyStorage, [token |-> Null, user |-> Null], Str("t1"), u).ls :
        u \in RouterUsers}

UnmatchedPaths == {"/missing", "/dashboard/extra"}

RouterPaths ==
    {"/", "/login", "/register", "/dashboard", "/profile", "/investigator"} \cup UnmatchedPaths

InitRouter == \E ls \in RouterStorages : InitWith(ls)

\* a link of the page on display is followed: the current entry stays below
Visit(path) ==
    /\ Running
    /\ RouteElement(location, store).render
    /\ path /= location
    /\ Len(history) < MaxHistory
    /\ history' = Append(history, location)
    /\ location' = path
    /\ flows' = Detach(flows)
    /\ last' = Event("visit", NoFields)
    /\ UNCHANGED << localStorage, store, app, pendingNav, inflight, pending >>

\* the back button
Back ==
    /\ Running
    /\ history /= << >>
    /\ location' = history[Len(history)]
    /\ history' = SubSeq(history, 1, Len(history) - 1)
    /\ flows' = Detach(flows)
    /\ last' = Event("back", NoFields)
    /\ UNCHANGED << localStorage, store, app, pendingNav, inflight, pending >>

NextRouter ==
    \/ \E p \in RouterPaths : Visit(p)
    \/ Back
    \/ Render

SpecRouter == InitRouter /\ [][NextRouter]_vars

(***************************************************************************)
(* The same program, loaded on a storage that something else wrote: one    *)
(* key without the other, or a user text that is not JSON.                 *)
(***************************************************************************)
MalformedTexts == {Text(<< Lx("{"), LStr("id") >>), Str("undefined")}

SeedStorages ==
    {[k \in ks |-> IF k = "dd_token" THEN Str("t1") ELSE u] :
        ks \in SUBSET {"dd_token", "dd_user"},
        u \in {JSONStringify(x) : x \in Users} \cup MalformedTexts}

InitSeeded == \E ls \in SeedStorages : InitWith(ls)

SpecSeeded == InitSeeded /\ [][Next]_vars

(***************************************************************************)
(* Shorthands of the properties.                                           *)
(***************************************************************************)
HasKey(k) == k \in DOMAIN localStorage

StorageCleared == ~HasKey("dd_token") /\ ~HasKey("dd_user")

Present(x) == x /= Null

Unauthorized == HttpResponse(401)

AuthUrls == {LoginUrl, MeUrl, RegisterUrl}

(***************************************************************************)
(* C1.  Pairing: at every observation point of the running application the *)
(* in-memory token and user are both present or both absent.               *)
(***************************************************************************)
C1_Pairing ==
    app = "running" => (Present(store.token) <=> Present(store.user))

(***************************************************************************)
(* C2.  A 401 response to a request sent through the client, whatever its  *)
(* endpoint, removes dd_token and dd_user from the storage and assigns     *)
(* /login to window.location.href.                                         *)
(***************************************************************************)
C2_UnauthorizedForcesLogout ==
    (last.op = "response" /\ last.via = "client" /\ last.outcome = Unauthorized)
        => (StorageCleared /\ pendingNav = "/login")

C2_Witness ==
    /\ last.op = "response"
    /\ last.via = "client"
    /\ last.url = "/api/v1/patients/profile"
    /\ last.outcome = Unauthorized
    /\ Present(store.token)
    /\ StorageCleared

(***************************************************************************)
(* C3.  A request sent through the client that fails with anything but a   *)
(* 401 (403, 500, no response, timeout) leaves the storage and the store   *)
(* as they were and starts no navigation.                                  *)
(***************************************************************************)
C3_OtherFailuresPassThrough ==
    [][(/\ last'.op = "response"
        /\ last'.via = "client"
        /\ IsError(last'.outcome)
        /\ last'.outcome /= Unauthorized)
          => UNCHANGED << localStorage, store, pendingNav, location >>]_vars

C3_Witness ==
    /\ last.op = "response"
    /\ last.via = "client"
    /\ last.outcome = HttpResponse(403)
    /\ last.settled = "rejected"
    /\ Present(store.token)
    /\ HasKey("dd_token")
    /\ HasKey("dd_user")
    /\ pendingNav = "none"

(***************************************************************************)
(* C4.  As claimed: a 401 response to any call of the front-end, the       *)
(* login, me and register calls included, clears the stored session and    *)
(* starts the navigation to /login.                                        *)
(***************************************************************************)
C4_AnyUnauthorizedForcesLogout ==
    (last.op = "response" /\ last.outcome = Unauthorized)
        => (StorageCleared /\ pendingNav = "/login")

(***************************************************************************)
(* C4, amended.  A 401 response to a call sent through the client clears   *)
(* the stored session and starts the navigation to /login; a 401 response  *)
(* to the login, me or register call of the adapter, which are sent with   *)
(* axios itself, leaves the storage, the store and the location alone.     *)
(***************************************************************************)
C4_UnauthorizedByTransport ==
    [][(last'.op = "response" /\ last'.outcome = Unauthorized)
          => IF last'.url \in AuthUrls
                 THEN UNCHANGED << localStorage, store, pendingNav, location >>
             ELSE (StorageCleared /\ pendingNav = "/login")']_vars

C4_Witness ==
    /\ last.op = "response"
    /\ last.url = LoginUrl
    /\ last.outcome = Unauthorized
    /\ Present(store.token)
    /\ HasKey("dd_token")
    /\ pendingNav = "none"

(***************************************************************************)
(* C5.  Guard matrix: in every state of the store that has no token, or a  *)
(* token and the role patient or investigator, each of the four guards     *)
(* decides as the table says, and so does every route that was rendered.   *)
(***************************************************************************)
Guards == {"RequireAuth", "RequirePatient", "RequireInvestigator", "PublicOnly"}

Decision(g, st) ==
    CASE g = "RequireAuth" -> RequireAuth(st)
      [] g = "RequirePatient" -> RequirePatient(st)
      [] g = "RequireInvestigator" -> RequireInvestigator(st)
      [] g = "PublicOnly" -> PublicOnly(st)

\* the column of the table a store state falls in, "other" when in none
AuthState(st) ==
    IF ~Present(st.token) \/ st.token = Undefined THEN "no token"
    ELSE IF OptGet(st.user, "role") = Str("patient") THEN "patient"
    ELSE IF OptGet(st.user, "role") = Str("investigator") THEN "investigator"
    ELSE "other"

Matrix(g, a) ==
    CASE g = "RequireAuth" ->
            (IF a = "no token" THEN NavigateTo("/login") ELSE Children)
      [] g = "RequirePatient" ->
            (IF a = "no token" THEN NavigateTo("/login")
             ELSE IF a = "patient" THEN Children
             ELSE NavigateTo("/investigator"))
      [] g = "RequireInvestigator" ->
            (IF a = "no token" THEN NavigateTo("/login")
             ELSE IF a = "patient" THEN NavigateTo("/dashboard")
             ELSE Children)
      [] g = "PublicOnly" ->
            (IF a = "no token" THEN Children
             ELSE IF a = "patient" THEN NavigateTo("/dashboard")
             ELSE NavigateTo("/investigator"))

GuardOfPath(path) ==
    IF path \in {"/login", "/register"} THEN "PublicOnly"
    ELSE IF path \in PatientPaths THEN "RequirePatient"
    ELSE IF path \in InvestigatorPaths THEN "RequireInvestigator"
    ELSE "none"

C5_GuardMatrix ==
    (app = "running" /\ AuthState(store) /= "other") =>
        /\ \A g \in Guards : Decision(g, store) = Matrix(g, AuthState(store))
        /\ (last.op = "render" /\ GuardOfPath(last.path) /= "none") =>
               /\ last.element = Matrix(GuardOfPath(last.path), AuthState(store))
               /\ location = IF last.element.render THEN last.path ELSE last.element.to

C5_Witness ==
    /\ last.op = "render"
    /\ last.path = "/dashboard"
    /\ AuthState(store) = "investigator"
    /\ last.element = NavigateTo("/investigator")
    /\ location = "/investigator"

(***************************************************************************)
(* C6.  A page that loads on a user text that is not JSON does not throw   *)
(* and starts logged out.                                                  *)
(***************************************************************************)
Loaded == last.op \in {"load", "reload"}

C6_MalformedUserLoadsLoggedOut ==
    (Loaded /\ HasKey("dd_user") /\ ~JSONParse(localStorage["dd_user"]).ok)
        => (app = "running" /\ store = [token |-> Null, user |-> Null])

(***************************************************************************)
(* C7.  A page that loads on a storage holding one of the two keys without *)
(* the other (the user text, when it is the one, being JSON) starts logged *)
(* out: neither token nor user in memory.                                  *)
(***************************************************************************)
C7_LoneKeyLoadsLoggedOut ==
    (/\ Loaded
     /\ HasKey("dd_token") /= HasKey("dd_user")
     /\ HasKey("dd_user") => JSONParse(localStorage["dd_user"]).ok)
        => (app = "running" /\ store = [token |-> Null, user |-> Null])

(***************************************************************************)
(* C8.  Durable round trip: a reload that follows setAuth(t, u) starts     *)
(* with the session (t, u) in memory.                                      *)
(***************************************************************************)
C8_DurableRoundTrip ==
    (last.op = "reload" /\ last.after.op = "setAuth")
        => /\ app = "running"
           /\ store = [token |-> last.after.token, user |-> last.after.user]

C8_Witness ==
    /\ last.op = "reload"
    /\ last.after.op = "setAuth"
    /\ last.after.token = Str("t2")
    /\ OptGet(store.user, "role") = Str("investigator")

(***************************************************************************)
(* C9.  logout is idempotent: a logout that follows a logout, or that is   *)
(* called on a session already logged out, changes neither the store nor   *)
(* the storage.                                                            *)
(***************************************************************************)
LoggedOut == store = [token |-> Null, user |-> Null] /\ StorageCleared

C9_LogoutIdempotent ==
    [][(last'.op = "logout" /\ (last.op = "logout" \/ LoggedOut))
          => UNCHANGED << localStorage, store, app >>]_vars

C9_Witness ==
    /\ last.op = "logout"
    /\ last.after.op = "logout"
    /\ LoggedOut
    /\ app = "running"

(***************************************************************************)
(* C10.  Header injection: a request dispatched through the client carries *)
(* Authorization: Bearer t when the storage holds the token t at that      *)
(* moment and no Authorization header when it holds none; unless a forced  *)
(* logout is waiting for its navigation, that token is the one in memory.  *)
(***************************************************************************)
HeaderFor(token) == IF Present(token) THEN Bearer(token) ELSE Undefined

ForcedLogout(e) ==
    e.op = "response" /\ e.via = "client" /\ e.outcome = Unauthorized

StoreOps == {"setAuth", "logout", "updateUser"}

Mirrored ==
    LET s == stored(localStorage) IN
    /\ ~s.threw
    /\ store.token = s.token
    /\ store.user = s.user

C11_Mirrored ==
    (app = "running" /\ (last.op \in StoreOps \/ ForcedLogout(last))) => Mirrored

(***************************************************************************)
(* C12.  Sole writer: every step that writes or removes dd_token or        *)
(* dd_user in the storage is an operation of the store (setAuth, logout,   *)
(* updateUser).                                                            *)
(***************************************************************************)
SessionKeys == {"dd_token", "dd_user"}

C12_SoleWriter ==
    [][(\E k \in SessionKeys : getItem(localStorage', k) /= getItem(localStorage, k))
          => last'.op \in StoreOps]_vars

(***************************************************************************)
(* C13.  A populated session is cleared only by logout or by a 401 that    *)
(* the client handled: no other step removes a session key from the        *)
(* storage, and no other step empties the token or the user in memory but  *)
(* the document load that the 401 handler itself started, which finds the  *)
(* key removed.                                                            *)
(***************************************************************************)
C13_ClearedOnlyByLogoutOr401 ==
    [][/\ (\E k \in SessionKeys : k \in DOMAIN localStorage /\ k \notin DOMAIN localStorage')
            => (last'.op = "logout" \/ ForcedLogout(last'))
       /\ \A f \in {"token", "user"} :
            (Truthy(store[f]) /\ ~Truthy(store'[f]))
                => \/ last'.op = "logout"
                   \/ /\ last'.op = "reload"
                      /\ pendingNav = "/login"
                      /\ ~HasKey("dd_" \o f)]_vars

C13_Witness ==
    /\ last.op = "response"
    /\ last.via = "client"
    /\ last.outcome = TimeoutError
    /\ Truthy(store.token)
    /\ Truthy(store.user)
    /\ HasKey("dd_token")
    /\ HasKey("dd_user")

(***************************************************************************)
(* C16.  A request through the client that fails, with a 401 or with       *)
(* anything else, is settled as a rejection carrying the original error,   *)
(* and settling it sends no request: there is no retry.                    *)
(***************************************************************************)
C16_ErrorStillRejected ==
    [][(last'.op = "response" /\ last'.via = "client" /\ IsError(last'.outcome))
          => /\ last'.settled = "rejected"
             /\ last'.with = last'.outcome
             /\ inflight' \subseteq inflight
             /\ inflight' /= inflight]_vars

C16_Witness ==
    /\ ForcedLogout(last)
    /\ last.settled = "rejected"
    /\ last.with = Unauthorized
    /\ pendingNav = "/login"
    /\ inflight = {}

(***************************************************************************)
(* C18.  updateUser(user), in every session state, leaves the user in      *)
(* memory and the user that dd_user decodes to equal to its argument, and  *)
(* leaves the token in memory and the dd_token key as they were.           *)
(***************************************************************************)
C18_UpdateUserFrame ==
    last.op = "updateUser" =>
        /\ store.user = last.user
        /\ JSONParse(getItem(localStorage, "dd_user")) = Parsed(last.user)
        /\ store.token = last.before.token
        /\ getItem(localStorage, "dd_token") = last.before.key

C18_Witness ==
    /\ last.op = "updateUser"
    /\ last.before.token = Str("t2")
    /\ last.before.key = Str("t2")
    /\ OptGet(last.user, "role") = Str("patient")
    /\ store = [token |-> Str("t2"), user |-> last.user]

(***************************************************************************)
(* C17.  Followed effect by effect, each of setAuth, logout and updateUser *)
(* performs its storage writes and removals first and updates the memory   *)
(* in one last effect, so that until then the memory is as it was before   *)
(* the call.  While setAuth or updateUser runs on a mirrored session the   *)
(* memory never holds a token when the storage holds none; the last effect *)
(* leaves the memory equal to the storage.                                 *)
(***************************************************************************)
StorageFirst(steps) ==
    /\ steps[Len(steps)].fx = "set"
    /\ \A i \in 1..(Len(steps) - 1) : steps[i].fx \in {"setItem", "removeItem"}

InStoreOp == pending.op \in StoreOps

\* the claim as stated: at no intermediate point of any of the three does
\* the memory hold a token that the storage does not hold
C17_NoTokenOnlyInMemory ==
    (InStoreOp /\ pendingNav = "none")
        => /\ StorageFirst(pending.steps)
           /\ Truthy(store.token) => HasKey("dd_token")

C17_StorageBeforeMemory ==
    /\ InStoreOp
        => /\ StorageFirst(pending.steps)
           /\ store = pending.note
           /\ (pendingNav = "none" /\ pending.op /= "logout" /\ Truthy(store.token))
                 => HasKey("dd_token")
    /\ (last.op = "step" /\ last.of \in StoreOps /\ last.fx.fx = "set"
            /\ pendingNav = "none")
        => (pending = NoHandler /\ Mirrored)

C17_Witness ==
    /\ pending.op = "logout"
    /\ Len(pending.steps) = 1
    /\ StorageCleared
    /\ Truthy(store.token)
    /\ pendingNav = "none"

(***************************************************************************)
(* C20.  On a 401 the error handler of the response interceptor has        *)
(* removed dd_token and dd_user when it assigns /login to                  *)
(* window.location.href, and the document load that commits this redirect  *)
(* on the storage so cleared starts logged out at /login, where PublicOnly *)
(* renders the login page.                                                 *)
(***************************************************************************)
Redirecting ==
    /\ pending.op = "responseRejected"
    /\ Head(pending.steps).fx = "href"

C20_RedirectLandsLoggedOut ==
    [][/\ (Redirecting /\ last'.op = "step")
            => (StorageCleared /\ pendingNav' = "/login")
       /\ (last'.op = "reload" /\ pendingNav = "/login")
            => /\ location' = "/login"
               /\ store' = [token |-> Null, user |-> Null]
               /\ RouteElement(location', store') = Children]_vars

\* the part of C20 that holds: the keys are removed before the redirect, and
\* a document load that finds them still removed starts logged out
C20_ClearedBeforeRedirect ==
    [][/\ (Redirecting /\ last'.op = "step")
            => /\ StorageCleared
               /\ pending.note.outcome = Unauthorized
               /\ pendingNav' = "/login"
               /\ pending' = NoHandler
               /\ UNCHANGED localStorage
       /\ (last'.op = "reload" /\ pendingNav = "/login" /\ StorageCleared)
            => /\ location' = "/login"
               /\ store' = [token |-> Null, user |-> Null]
               /\ RouteElement(location', store') = Children]_vars

C20_Witness ==
    /\ last.op = "reload"
    /\ last.after.op = "step"
    /\ last.after.of = "responseRejected"
    /\ last.after.fx = HrefFx("/login")
    /\ location = "/login"
    /\ LoggedOut
    /\ PublicOnly(store) = Children

(***************************************************************************)
(* C14.  In the login flow and in the registration flow the me request     *)
(* carries Authorization: Bearer t, t being the access token that the      *)
(* login call of the same flow returned.                                   *)
(***************************************************************************)
C14_MeCarriesLoginToken ==
    \A f \in BagToSet(flows) :
        f.pc = "me" => (f.token \in Tokens /\ f.request.Authorization = Bearer(f.token))

(***************************************************************************)
(* C15.  login(email, password) sends a POST to /api/v1/auth/login with    *)
(* content type application/x-www-form-urlencoded and a form body of       *)
(* exactly two fields, username = email and password = password.           *)
(***************************************************************************)
C15_LoginWireFormat ==
    \A f \in BagToSet(flows) :
        f.pc = "login" =>
            /\ f.request.method = "POST"
            /\ f.request.url = LoginUrl
            /\ f.request.ContentType = Str("application/x-www-form-urlencoded")
            /\ f.request.data.kind = "urlencoded"
            /\ f.request.data.fields = << [k |-> "username", v |-> f.form.email],
                                          [k |-> "password", v |-> f.form.password] >>

C15_Witness ==
    \E f \in BagToSet(flows) :
        /\ f.page = "login"
        /\ f.pc = "login"
        /\ f.form.email = Str("a@b.com")
        /\ f.request.data.fields[1].v = Str("a@b.com")

(***************************************************************************)
(* C19.  In a login or registration flow the navigation away from the form *)
(* is issued when setAuth has returned: the storage and the memory both    *)
(* hold the token and the user of the flow.  A guard rendered right after  *)
(* the navigation, at the role home, sees that session and renders.        *)
(***************************************************************************)
C19_SetAuthBeforeNavigation ==
    /\ (pending.op \in {"login", "register"} /\ Head(pending.steps).fx = "navigate")
        => (store = pending.note /\ Mirrored)
    /\ (last.op = "step" /\ last.of \in {"login", "register"} /\ last.fx.fx = "navigate")
        => /\ pending = NoHandler
           /\ location = last.fx.to
           /\ Truthy(store.token)
           /\ location = HomeOf(store.user)
           /\ Mirrored
           /\ RouteElement(location, store) = Children

C19_Witness ==
    /\ last.op = "step"
    /\ last.of = "login"
    /\ last.fx = NavigateFx("/investigator")
    /\ location = "/investigator"
    /\ store.token = Str("t2")
    /\ getItem(localStorage, "dd_token") = Str("t2")

(***************************************************************************)
(* C21.  With a token and a role that is neither patient nor investigator  *)
(* (no role, an unknown role, no user at all) every guard returns an       *)
(* element: RequirePatient renders its children, PublicOnly and            *)
(* RequireInvestigator redirect to /dashboard, and a render of a patient   *)
(* route stays there.                                                      *)
(***************************************************************************)
C21_UnknownRoleIsPatient ==
    (Truthy(store.token) /\ AuthState(store) = "other") =>
        /\ RequirePatient(store) = Children
        /\ PublicOnly(store) = NavigateTo("/dashboard")
        /\ RequireInvestigator(store) = NavigateTo("/dashboard")
        /\ RequireAuth(store) = Children
        /\ (last.op = "render" /\ last.path \in PatientPaths)
              => (last.element = Children /\ location = last.path)

C21_Witness ==
    /\ Truthy(store.token)
    /\ store.user = Null
    /\ last.op = "render"
    /\ last.path = "/profile"
    /\ last.element = Children
    /\ location = "/profile"

(***************************************************************************)
(* C23.  Every redirect of a guard and the redirect of an unmatched path   *)
(* replaces the current history entry: no route whose guard redirects the  *)
(* session is left in the history, so the back button never returns to it. *)
(***************************************************************************)
C23_RedirectsReplace ==
    /\ \A i \in DOMAIN history : RouteElement(history[i], store).render
    /\ (last.op = "render" /\ ~last.element.render)
          => /\ last.element.replace
             /\ location = last.element.to
             /\ \A i \in DOMAIN history : history[i] /= last.path

C23_Witness ==
    /\ last.op = "render"
    /\ last.path = "/investigator"
    /\ last.element = NavigateTo("/dashboard")
    /\ location = "/dashboard"
    /\ history = << "/" >>

(***************************************************************************)
(* C24.  A path that is none of the declared routes redirects to /, and /  *)
(* renders in every session state, with no guard.                          *)
(***************************************************************************)
DeclaredPaths == {"/", "/login", "/register"} \cup PatientPaths \cup InvestigatorPaths

C24_UnmatchedToLanding ==
    /\ RouteElement("/", store) = Children
    /\ \A p \in RouterPaths \ DeclaredPaths : RouteElement(p, store) = NavigateTo("/")
    /\ (last.op = "render" /\ last.path \notin DeclaredPaths)
          => (location = "/" /\ RouteElement(location, store).render)

C24_Witness ==
    /\ last.op = "render"
    /\ last.path = "/dashboard/extra"
    /\ location = "/"
    /\ AuthState(store) = "investigator"

(***************************************************************************)
(* C25.  From every route and in every session, following the redirects of *)
(* the guards reaches a route that renders after at most two redirects.    *)
(***************************************************************************)
\* the number of redirects from path to a route that renders, more than n
\* when n redirects do not reach one
RECURSIVE Redirects(_, _, _)
Redirects(path, st, n) ==
    IF RouteElement(path, st).render THEN 0
    ELSE IF n = 0 THEN 1
    ELSE 1 + Redirects(RouteElement(path, st).to, st, n - 1)

C25_RedirectsEnd ==
    /\ \A p \in RouterPaths \cup PatientPaths \cup InvestigatorPaths :
          Redirects(p, store, 2) <= 2
    /\ (last.op = "render" /\ ~last.element.render)
          => Redirects(location, store, 2) < 2

C25_Witness ==
    /\ last.op = "render"
    /\ last.path = "/login"
    /\ AuthState(store) = "other"
    /\ location = "/dashboard"
    /\ RouteElement(location, store).render

(***************************************************************************)
(* C29.  Role exclusivity: RequirePatient and RequireInvestigator never    *)
(* both render for the same token and user, no patient route and           *)
(* investigator route both render, and without a token neither renders.    *)
(***************************************************************************)
C29_RoleExclusive ==
    /\ ~(RequirePatient(store).render /\ RequireInvestigator(store).render)
    /\ \A p \in PatientPaths, q \in InvestigatorPaths :
          ~(RouteElement(p, store).render /\ RouteElement(q, store).render)
    /\ ~Truthy(store.token)
          => (~RequirePatient(store).render /\ ~RequireInvestigator(store).render)

C29_Witness ==
    /\ last.op = "render"
    /\ last.path = "/investigator"
    /\ last.element = Children
    /\ AuthState(store) = "investigator"
    /\ ~RequirePatient(store).render

(***************************************************************************)
(* C22.  The register request of the registration flow is a POST of the    *)
(* JSON object {email, password, full_name, role} holding the email, the   *)
(* password, the full name and the role of the form.                       *)
(***************************************************************************)
C22_RegisterBody ==
    \A f \in BagToSet(flows) :
        f.pc = "register" =>
            /\ f.request.method = "POST"
            /\ f.request.url = RegisterUrl
            /\ f.request.data =
                  JsonBody(Obj(<< Prop("email", f.form.email),
                                  Prop("password", f.form.password),
                                  Prop("full_name", f.form.full_name),
                                  Prop("role", f.form.role) >>))

(***************************************************************************)
(* C27.  A login or me call of a flow that fails ends the submission with  *)
(* no setAuth and no navigation: the step leaves the storage, the store,   *)
(* the route and the pending navigation as they were and calls no handler. *)
(* The submit and the replies before the me reply change none of them      *)
(* either.                                                                 *)
(***************************************************************************)
C27_FailedFlowChangesNothing ==
    [][/\ (last'.op = "reply" /\ ~last'.ok /\ last'.pc \in {"login", "me"})
            => /\ UNCHANGED << localStorage, store, location, pendingNav >>
               /\ pending' = NoHandler
               /\ BagCardinality(flows') = BagCardinality(flows) - 1
       /\ (last'.op = "submit" \/ (last'.op = "reply" /\ last'.pc /= "me"))
            => /\ UNCHANGED << localStorage, store, location, pendingNav >>
               /\ pending' = NoHandler]_vars

C27_Witness ==
    /\ last.op = "reply"
    /\ last.page = "login"
    /\ last.pc = "me"
    /\ ~last.ok
    /\ location = "/login"
    /\ LoggedOut
    /\ flows = EmptyBag
    /\ pending = NoHandler

(***************************************************************************)
(* C28.  The navigation of a flow lands where the guards keep the session: *)
(* after a login or registration that succeeded the target is the redirect *)
(* target of PublicOnly for the session stored and its route renders;      *)
(* after Sign Out the route is /login and PublicOnly renders it.           *)
(***************************************************************************)
Navigated(ops) ==
    last.op = "step" /\ last.of \in ops /\ last.fx.fx = "navigate"

C28_TargetsAccepted ==
    /\ Navigated({"login", "register"})
          => /\ PublicOnly(store) = NavigateTo(location)
             /\ RouteElement(location, store) = Children
    /\ Navigated({"signOut"})
          => /\ location = "/login"
             /\ LoggedOut
             /\ PublicOnly(store) = Children
             /\ RouteElement(location, store) = Children

C28_Witness ==
    /\ Navigated({"signOut"})
    /\ location = "/login"
    /\ LoggedOut
    /\ pending = NoHandler

(***************************************************************************)
(* C30.  With login submissions overlapping, the setAuth of a login flow   *)
(* is called with the token its own login call returned and the user its   *)
(* own me call returned, that me call having been sent with that token;    *)
(* when setAuth has run the session is the pair of that flow.              *)
(***************************************************************************)
C30_PairFromOneFlow ==
    /\ (last.op = "reply" /\ last.page = "login" /\ last.pc = "me" /\ last.ok)
          => /\ pending.op = "login"
             /\ pending.note.token = last.flow.token
             /\ last.flow.sent = Bearer(last.flow.token)
             /\ SubSeq(pending.steps, 1, 3) =
                    setAuthSteps(pending.note.token, pending.note.user)
    /\ (last.op = "step" /\ last.of = "login" /\ last.fx.fx = "set")
          => /\ store = pending.note
             /\ Mirrored

C30_Witness ==
    /\ last.op = "step"
    /\ last.of = "login"
    /\ last.fx.fx = "set"
    /\ store.token = Str("t2")
    /\ \E g \in BagToSet(flows) :
          g.page = "login" /\ g.pc = "me" /\ g.token = Str("t1")

(***************************************************************************)
(* C26.  The forced logout acts on the session stored when the response    *)
(* arrives: when the handler of a 401 reaches its redirect both keys are   *)
(* removed, whatever token the request was sent with, a session written by *)
(* setAuth after the dispatch included.                                    *)
(***************************************************************************)
C26_ClearsWhateverIsStored ==
    (Redirecting /\ pending.note.outcome = Unauthorized) => StorageCleared

C26_Witness ==
    /\ Redirecting
    /\ pending.note.outcome = Unauthorized
    /\ pending.note.sent = Bearer(Str("t1"))
    /\ store.token = Str("t2")
    /\ Present(store.user)
    /\ StorageCleared

====
